---- MODULE Spec2Model ----
(***************************************************************************)
(* Translation event processor: a Source thread reads the input file line  *)
(* by line into the incoming queue, the Engine (main thread) keeps a       *)
(* per-minute chronology and puts one piece of information per closed      *)
(* minute on the outgoing queue, and a Sink thread appends them to the     *)
(* output file.                                                            *)
(*                                                                         *)
(* Time. A datetime is [minutes, second, microsecond], minutes counted     *)
(* from midnight of day 0 of the model (any calendar day).  A timestamp in *)
(* the file and a date in the output are the ISO texts, modelled by their  *)
(* fields [day, hour, minute, second, microsecond].                        *)
(*                                                                         *)
(* Numbers. delivery_time / number_of_events is kept as the exact fraction *)
(* [num, den]; the JSON number that is put on the queue is an "int" or a   *)
(* "float" in thousandths (round(x, 3)).                                   *)
(***************************************************************************)
EXTENDS Integers, Sequences, FiniteSets, TLC

VARIABLES
    args_window_size,   \* args[4], already an integer
    input_file,         \* the lines of the input file
    read_pos,           \* number of lines the Source has read
    source_pc,          \* "not_started" | "reading" | "returned" | "failed"
    incoming_queue,     \* queue.Queue Source -> Engine
    engine_pc,          \* "start" | "rejected" | "loop" | "returned" | "ZeroDivisionError" | "IndexError"
    window_size,        \* window size returned by the command-line parser
    chronology,         \* list of minute_info, latest minute first
    outgoing_queue,     \* queue.Queue Engine -> Sink
    sink_pc,            \* "not_started" | "writing" | "returned" | "failed"
    first_line,         \* Sink: no line written yet
    output_file,        \* the chunks written by the Sink, in order
    consumed,           \* history: every item the Engine got from incoming_queue
    emitted             \* history: every item the Engine put on outgoing_queue

vars == <<args_window_size, input_file, read_pos, source_pc, incoming_queue,
          engine_pc, window_size, chronology, outgoing_queue, sink_pc,
          first_line, output_file, consumed, emitted>>

\* ---------------------------------------------------------------- bounds
MaxEvents == 3
MaxMinute == 2
MaxDuration == 2
MaxWindow == 3

\* ------------------------------------------------------- program constants
\* datetime/timedelta arithmetic
MinutesPerHour == 60
MinutesPerDay == 1440
SecondsPerMinute == 60
SecondsPerDay == 86400
AVERAGE_DELIVERY_TIME_MAX_DIGITS == 3

\* A string is the sequence of its tokens: a JSON object is one token, a line
\* break is one token, '' is <<>>.
LineBreak == [char |-> "\\n"]

\* constants.END_OF_FILE_MARKER: a string that is no JSON object
END_OF_FILE_MARKER == <<[marker |-> "END_OF_FILE"]>>

\* json.dumps / json.loads of one object
json_dumps(object) == <<object>>
json_loads(string) == string[1]

\* --------------------------------------------------------------- datetime
DateTime(m, s, us) == [minutes |-> m, second |-> s, microsecond |-> us]

\* The ISO text of the instant `s`.`us` seconds after absolute minute m
IsoText(m, s, us) ==
    [day |-> m \div MinutesPerDay,
     hour |-> (m % MinutesPerDay) \div MinutesPerHour,
     minute |-> m % MinutesPerHour,
     second |-> s,
     microsecond |-> us]

\* datetime.fromisoformat
fromisoformat(text) ==
    DateTime(text.day * MinutesPerDay + text.hour * MinutesPerHour + text.minute,
             text.second, text.microsecond)

\* str(datetime): 'YYYY-MM-DD HH:MM:SS', with '.ffffff' only if microsecond # 0
datetime_str(dt) ==
    IF dt.microsecond = 0
    THEN [day |-> dt.minutes \div MinutesPerDay,
          hour |-> (dt.minutes % MinutesPerDay) \div MinutesPerHour,
          minute |-> dt.minutes % MinutesPerHour,
          second |-> dt.second]
    ELSE IsoText(dt.minutes, dt.second, dt.microsecond)

\* datetime + timedelta(minutes=n)
plus_minutes(dt, n) == [dt EXCEPT !.minutes = @ + n]

\* variant: the difference is taken between the later and the earlier datetime
datetime_sub_magnitude(a, b) ==
    LET total == (a.minutes - b.minutes) * SecondsPerMinute + (a.second - b.second)
        magnitude == IF total < 0 THEN 0 - total ELSE total
    IN [days |-> magnitude \div SecondsPerDay, seconds |-> magnitude % SecondsPerDay]

\* datetime - datetime of two datetimes with equal microsecond: a timedelta,
\* normalised by Python to 0 <= seconds < 86400 with the rest in days
datetime_sub(a, b) ==
    LET total == (a.minutes - b.minutes) * SecondsPerMinute + (a.second - b.second)
    IN [days |-> total \div SecondsPerDay, seconds |-> total % SecondsPerDay]

\* timedelta(minutes=n)
timedelta_minutes(n) ==
    [days |-> (n * SecondsPerMinute) \div SecondsPerDay,
     seconds |-> (n * SecondsPerMinute) % SecondsPerDay]

\* variant: only the seconds of the two timedeltas are compared, not the days
timedelta_gt_seconds_only(x, y) == x.seconds > y.seconds

\* timedelta > timedelta
timedelta_gt(x, y) ==
    x.days > y.days \/ (x.days = y.days /\ x.seconds > y.seconds)

\* variant: only the seconds are looked at to tell a minute boundary
next_minute_by_seconds_only(datetime_object) ==
    IF datetime_object.second = 0
    THEN datetime_object
    ELSE plus_minutes(DateTime(datetime_object.minutes, 0, 0), 1)

\* EventProcessor._get_next_minute_of_datetime
get_next_minute_of_datetime(datetime_object) ==
    IF datetime_object.second = 0 /\ datetime_object.microsecond = 0
    THEN datetime_object
    ELSE plus_minutes(DateTime(datetime_object.minutes, 0, 0), 1)

\* ---------------------------------------------------------------- numbers
\* the value of delivery_time / number_of_events, or the exception it raises
ZeroDivisionError == [raised |-> "ZeroDivisionError"]

Fraction(n, d) == [num |-> n, den |-> d]

\* _get_average_delivery_time (inner function)
get_average_delivery_time(number_of_events, delivery_time) ==
    IF number_of_events = 0 THEN ZeroDivisionError
    ELSE Fraction(delivery_time, number_of_events)

\* EventProcessor._is_integer: round(number) == number
is_integer(number) == number.num % number.den = 0

\* variant: the digits after the third are cut off instead of rounded
round_digits_down(number) ==
    ((10 ^ AVERAGE_DELIVERY_TIME_MAX_DIGITS) * number.num) \div number.den

\* round(number, AVERAGE_DELIVERY_TIME_MAX_DIGITS), in units of 10^-3: the
\* nearest multiple.  An exact decimal tie needs a number of events that is a
\* multiple of 16, which no input of the model has.
round_digits(number) ==
    (2 * (10 ^ AVERAGE_DELIVERY_TIME_MAX_DIGITS) * number.num + number.den)
        \div (2 * number.den)

\* the JSON number put in the information
json_number(number) ==
    IF is_integer(number)
    THEN [kind |-> "int", value |-> number.num \div number.den]
    ELSE [kind |-> "float", milli |-> round_digits(number)]

\* ------------------------------------------------------------- chronology
minute_info(date, number_of_events, total_delivery_time) ==
    [date |-> date, number_of_events |-> number_of_events,
     total_delivery_time |-> total_delivery_time]

\* list.insert(0, x)
insert_front(list, x) == <<x>> \o list

\* variant: the entry right behind the new head is removed, not the last one
trim_behind_head(current_chronology, window) ==
    IF Len(current_chronology) > window
    THEN <<current_chronology[1]>>
         \o SubSeq(current_chronology, 3, Len(current_chronology))
    ELSE current_chronology

\* if len(current_chronology) > window_size: current_chronology.pop(-1)
trim(current_chronology, window) ==
    IF Len(current_chronology) > window
    THEN SubSeq(current_chronology, 1, Len(current_chronology) - 1)
    ELSE current_chronology

RECURSIVE sum_number_of_events(_, _)
sum_number_of_events(chron, n) ==
    IF n = 0 THEN 0
    ELSE sum_number_of_events(chron, n - 1) + chron[n].number_of_events

RECURSIVE sum_delivery_time(_, _)
sum_delivery_time(chron, n) ==
    IF n = 0 THEN 0
    ELSE sum_delivery_time(chron, n - 1) + chron[n].total_delivery_time

\* the number of entries the for-loop of the routine below reads
entries_read(chron, window) ==
    IF window < Len(chron) THEN window ELSE Len(chron)

\* variant: the average is taken over the whole chronology, not the window
average_of_whole_chronology(chron, window) ==
    IF chron = <<>> THEN Fraction(0, 1)
    ELSE get_average_delivery_time(
            sum_number_of_events(chron, Len(chron)),
            sum_delivery_time(chron, Len(chron)))

\* EventProcessor._get_average_delivery_time_from_chronology
get_average_delivery_time_from_chronology(chron, window) ==
    IF chron = <<>> THEN Fraction(0, 1)
    ELSE get_average_delivery_time(
            sum_number_of_events(chron, entries_read(chron, window)),
            sum_delivery_time(chron, entries_read(chron, window)))

\* EventProcessor._notify_new_information: the string put on the queue
information(datetime_object, average_delivery_time) ==
    json_dumps([date |-> datetime_str(datetime_object),
                average_delivery_time |-> json_number(average_delivery_time)])

\* ------------------------------------------------------------------ engine
\* What a handler leaves behind: the chronology (mutated in place), the items
\* it put on the outgoing queue, and the exception that ended it ("None" if
\* it returned).
Outcome(chron, puts, raised) ==
    [chronology |-> chron, puts |-> puts, raised |-> raised]

\* EventProcessor._get_parameters_from_raw_translation_event
get_parameters_from_raw_translation_event(raw_translation_event) ==
    LET translation_event_dict == json_loads(raw_translation_event)
    IN  [event_timestamp |-> fromisoformat(translation_event_dict.timestamp),
         event_delivery_time |-> translation_event_dict.duration]

\* variant: the first Result is notified for the minute of the event itself
on_first_event_no_previous_minute(current_chronology, next_minute, delivery_time) ==
    Outcome(insert_front(current_chronology, minute_info(next_minute, 1, delivery_time)),
            <<information(next_minute, Fraction(0, 1))>>,
            "None")

\* variant: an empty bucket for the previous minute is inserted as well
on_first_event_with_empty_bucket(current_chronology, next_minute, delivery_time) ==
    Outcome(insert_front(insert_front(current_chronology,
                                      minute_info(plus_minutes(next_minute, -1), 0, 0)),
                         minute_info(next_minute, 1, delivery_time)),
            <<information(plus_minutes(next_minute, -1), Fraction(0, 1))>>,
            "None")

\* on_first_event
on_first_event(current_chronology, next_minute, delivery_time) ==
    Outcome(insert_front(current_chronology, minute_info(next_minute, 1, delivery_time)),
            <<information(plus_minutes(next_minute, -1), Fraction(0, 1))>>,
            "None")

\* variant: the event is counted but its delivery time is not added
on_event_for_same_minute_count_only(current_chronology, delivery_time) ==
    Outcome([current_chronology EXCEPT ![1].number_of_events = @ + 1],
            <<>>,
            "None")

\* on_event_for_same_minute
on_event_for_same_minute(current_chronology, delivery_time) ==
    Outcome([current_chronology EXCEPT
                ![1].number_of_events = @ + 1,
                ![1].total_delivery_time = @ + delivery_time],
            <<>>,
            "None")

\* variant: the average is computed after the new bucket is inserted
on_event_for_new_consecutive_minute_average_late(current_chronology, next_minute, delivery_time, window) ==
    LET current_minute == current_chronology[1].date
        inserted == insert_front(current_chronology,
                                 minute_info(next_minute, 1, delivery_time))
        average_delivery_time ==
            get_average_delivery_time_from_chronology(inserted, window)
    IN  IF average_delivery_time = ZeroDivisionError
        THEN Outcome(current_chronology, <<>>, "ZeroDivisionError")
        ELSE Outcome(trim(inserted, window),
                     <<information(current_minute, average_delivery_time)>>,
                     "None")

\* on_event_for_new_consecutive_minute
on_event_for_new_consecutive_minute(current_chronology, next_minute, delivery_time, window) ==
    LET current_minute == current_chronology[1].date
        average_delivery_time ==
            get_average_delivery_time_from_chronology(current_chronology, window)
    IN  IF average_delivery_time = ZeroDivisionError
        THEN Outcome(current_chronology, <<>>, "ZeroDivisionError")
        ELSE Outcome(
                trim(insert_front(current_chronology,
                                  minute_info(next_minute, 1, delivery_time)), window),
                <<information(current_minute, average_delivery_time)>>,
                "None")

\* on_event_for_new_non_consecutive_minute, the body of
\* `for i in range(1, minute_difference)` from iteration i on
RECURSIVE empty_minutes(_, _, _, _, _)
empty_minutes(outcome, current_minute, i, minute_difference, window) ==
    IF outcome.raised # "None" \/ i >= minute_difference THEN outcome
    ELSE LET new_minute == plus_minutes(current_minute, i)
             inserted == insert_front(outcome.chronology, minute_info(new_minute, 0, 0))
             average_delivery_time ==
                 get_average_delivery_time_from_chronology(inserted, window)
         IN  IF average_delivery_time = ZeroDivisionError
             THEN Outcome(inserted, outcome.puts, "ZeroDivisionError")
             ELSE empty_minutes(
                     Outcome(trim(inserted, window),
                             Append(outcome.puts,
                                    information(new_minute, average_delivery_time)),
                             "None"),
                     current_minute, i + 1, minute_difference, window)

\* minute_difference_timedelta.seconds // 60
minute_difference_of(minute_difference_timedelta) ==
    minute_difference_timedelta.seconds \div SecondsPerMinute

\* variant: the empty minutes are filled up to the minute of the event and the
\* bucket of the event itself is not inserted
on_event_for_new_non_consecutive_minute_no_real_bucket(current_chronology, next_minute, delivery_time, window) ==
    LET current_minute == current_chronology[1].date
        average_delivery_time ==
            get_average_delivery_time_from_chronology(current_chronology, window)
        minute_difference ==
            minute_difference_of(datetime_sub(next_minute, current_minute))
    IN  IF average_delivery_time = ZeroDivisionError
        THEN Outcome(current_chronology, <<>>, "ZeroDivisionError")
        ELSE empty_minutes(
                Outcome(current_chronology,
                        <<information(current_minute, average_delivery_time)>>,
                        "None"),
                current_minute, 1, minute_difference, window)

\* on_event_for_new_non_consecutive_minute
on_event_for_new_non_consecutive_minute(current_chronology, next_minute, delivery_time, window) ==
    LET current_minute == current_chronology[1].date
        average_delivery_time ==
            get_average_delivery_time_from_chronology(current_chronology, window)
        minute_difference ==
            minute_difference_of(datetime_sub(next_minute, current_minute))
        filled ==
            empty_minutes(
                Outcome(current_chronology,
                        <<information(current_minute, average_delivery_time)>>,
                        "None"),
                current_minute, 1, minute_difference, window)
    IN  IF average_delivery_time = ZeroDivisionError
        THEN Outcome(current_chronology, <<>>, "ZeroDivisionError")
        ELSE IF filled.raised # "None" THEN filled
        ELSE Outcome(
                trim(insert_front(filled.chronology,
                                  minute_info(next_minute, 1, delivery_time)), window),
                filled.puts,
                "None")

\* One iteration of the while-loop of event_processor for a raw event: the
\* if/elif chain.  An event that matches no branch changes nothing.
process_event(chron, raw_event, window) ==
    LET parameters == get_parameters_from_raw_translation_event(raw_event)
        event_delivery_time == parameters.event_delivery_time
        timestamp_next_minute == get_next_minute_of_datetime(parameters.event_timestamp)
    IN  IF chron = <<>>
        THEN on_first_event(chron, timestamp_next_minute, event_delivery_time)
        ELSE IF timestamp_next_minute = chron[1].date
        THEN on_event_for_same_minute(chron, event_delivery_time)
        ELSE IF datetime_sub(timestamp_next_minute, chron[1].date) = timedelta_minutes(1)
        THEN on_event_for_new_consecutive_minute(
                chron, timestamp_next_minute, event_delivery_time, window)
        ELSE IF timedelta_gt(datetime_sub(timestamp_next_minute, chron[1].date),
                             timedelta_minutes(1))
        THEN on_event_for_new_non_consecutive_minute(
                chron, timestamp_next_minute, event_delivery_time, window)
        ELSE Outcome(chron, <<>>, "None")

\* event_processor after the loop: the final flush and the end marker
final_flush(chron, window) ==
    LET final_average_delivery_time ==
            get_average_delivery_time_from_chronology(chron, window)
    IN  IF final_average_delivery_time = ZeroDivisionError
        THEN Outcome(chron, <<>>, "ZeroDivisionError")
        ELSE IF chron = <<>>                       \* chronology[0] on an empty list
        THEN Outcome(chron, <<>>, "IndexError")
        ELSE Outcome(chron,
                     <<information(chron[1].date, final_average_delivery_time),
                       END_OF_FILE_MARKER>>,
                     "returned")

\* ------------------------------------------------------------------ inputs
\* the minutes of day 0, and two minutes of the next day that lie a gap apart
InputMinutes == (0 .. MaxMinute) \cup {MinutesPerDay, MinutesPerDay + MaxMinute}
SubMinutes == {<<0, 0>>, <<59, 999999>>}
Durations == 1 .. MaxDuration
WindowArgs == -1 .. MaxWindow

\* an event of the input: <<minute, <<second, microsecond>>, duration>>
InputEvents == InputMinutes \X SubMinutes \X Durations

\* e is not later than f
NotLater(e, f) ==
    \/ e[1] < f[1]
    \/ e[1] = f[1] /\ e[2][1] < f[2][1]
    \/ e[1] = f[1] /\ e[2][1] = f[2][1] /\ e[2][2] <= f[2][2]

\* the event sequences in chronological order, from oldest to newest
OrderedEvents ==
    {es \in UNION {[1 .. n -> InputEvents] : n \in 0 .. MaxEvents} :
        \A i \in 1 .. Len(es) - 1 : NotLater(es[i], es[i + 1])}

\* the JSON object of an event
EventJson(e) == [timestamp |-> IsoText(e[1], e[2][1], e[2][2]), duration |-> e[3]]

\* the file: one JSON per line, a line break after every line but the last
FileOf(es) ==
    [i \in 1 .. Len(es) |->
        IF i < Len(es) THEN <<EventJson(es[i]), LineBreak>> ELSE <<EventJson(es[i])>>]

\* ------------------------------------------------------------------ source
\* variant: the line is put as it was read, with its line break
parse_event_keeps_break(new_raw_event) == new_raw_event

\* SampleInputReader._parse_event
parse_event(new_raw_event) ==
    IF new_raw_event[Len(new_raw_event)] = LineBreak
    THEN SubSeq(new_raw_event, 1, Len(new_raw_event) - 1)
    ELSE new_raw_event

\* variant: the end of the file is reported one line early
readline_stops_early(file, pos) == IF pos + 1 < Len(file) THEN file[pos + 1] ELSE <<>>

\* f.readline(): '' at the end of the file
readline(file, pos) == IF pos < Len(file) THEN file[pos + 1] ELSE <<>>

\* ----------------------------------------------------------------- actions
InitWith(files, windows) ==
    /\ args_window_size \in windows
    /\ input_file \in files
    /\ read_pos = 0
    /\ source_pc = "not_started"
    /\ incoming_queue = <<>>
    /\ engine_pc = "start"
    /\ window_size = 0
    /\ chronology = <<>>
    /\ outgoing_queue = <<>>
    /\ sink_pc = "not_started"
    /\ first_line = TRUE
    /\ output_file = <<>>
    /\ consumed = <<>>
    /\ emitted = <<>>

Init == InitWith({FileOf(es) : es \in OrderedEvents}, WindowArgs)

\* start() has not run yet
NotStarted == engine_pc = "start"

\* variant: the command-line parser lets a window size of 0 through
StartAcceptsZero ==
    /\ NotStarted
    /\ IF args_window_size < 0
       THEN /\ engine_pc' = "rejected"
            /\ UNCHANGED <<window_size, source_pc, sink_pc>>
       ELSE /\ engine_pc' = "loop"
            /\ window_size' = args_window_size
            /\ source_pc' = "reading"
            /\ sink_pc' = "writing"
    /\ UNCHANGED <<args_window_size, input_file, read_pos, incoming_queue, chronology,
                   outgoing_queue, first_line, output_file, consumed, emitted>>

\* EventProcessor.start: the window size is validated, the queues are made,
\* both threads are started (the Sink opens a fresh output file) and the main
\* thread enters event_processor
Start ==
    /\ NotStarted
    /\ IF args_window_size <= 0
       THEN /\ engine_pc' = "rejected"
            /\ UNCHANGED <<window_size, source_pc, sink_pc>>
       ELSE /\ engine_pc' = "loop"
            /\ window_size' = args_window_size
            /\ source_pc' = "reading"
            /\ sink_pc' = "writing"
    /\ UNCHANGED <<args_window_size, input_file, read_pos, incoming_queue, chronology,
                   outgoing_queue, first_line, output_file, consumed, emitted>>

\* the Source is in its loop: readline and put never block
SourceCanRead == source_pc = "reading"

\* variant: the incoming queue hands out the newest item first (a LIFO queue)
SourceReadLineLifo ==
    /\ SourceCanRead
    /\ LET translation_event == readline(input_file, read_pos)
       IN  IF translation_event = <<>>
           THEN /\ incoming_queue' = <<END_OF_FILE_MARKER>> \o incoming_queue
                /\ source_pc' = "returned"
                /\ UNCHANGED read_pos
           ELSE /\ incoming_queue' = <<parse_event(translation_event)>> \o incoming_queue
                /\ read_pos' = read_pos + 1
                /\ UNCHANGED source_pc
    /\ UNCHANGED <<args_window_size, input_file, engine_pc, window_size, chronology,
                   outgoing_queue, sink_pc, first_line, output_file, consumed, emitted>>

\* SampleInputReader.process_input_stream, one iteration: a line is read and
\* put, or the end of the file is notified and the thread returns
SourceReadLine ==
    /\ SourceCanRead
    /\ LET translation_event == readline(input_file, read_pos)
       IN  IF translation_event = <<>>
           THEN /\ incoming_queue' = Append(incoming_queue, END_OF_FILE_MARKER)
                /\ source_pc' = "returned"
                /\ UNCHANGED read_pos
           ELSE /\ incoming_queue' = Append(incoming_queue, parse_event(translation_event))
                /\ read_pos' = read_pos + 1
                /\ UNCHANGED source_pc
    /\ UNCHANGED <<args_window_size, input_file, engine_pc, window_size, chronology,
                   outgoing_queue, sink_pc, first_line, output_file, consumed, emitted>>

\* SampleInputReader.process_input_stream, except: branch
SourceFail ==
    /\ source_pc = "reading"
    /\ source_pc' = "failed"
    /\ UNCHANGED <<args_window_size, input_file, read_pos, incoming_queue, engine_pc,
                   window_size, chronology, outgoing_queue, sink_pc, first_line,
                   output_file, consumed, emitted>>

\* what one iteration of the Engine's loop does with the item it got
engine_step(chron, raw_event, window) ==
    IF raw_event = END_OF_FILE_MARKER
    THEN final_flush(chron, window)
    ELSE process_event(chron, raw_event, window)

\* EventProcessor._get_translation_event_from_incoming_queue returns: the
\* Engine is in its loop and the blocking get finds an item
EngineCanGet == engine_pc = "loop" /\ incoming_queue # <<>>

\* EventProcessor.event_processor, one iteration of `while True` (with the
\* final flush when the item is the marker)
EngineStep ==
    /\ EngineCanGet
    /\ LET raw_event == Head(incoming_queue)
           outcome == engine_step(chronology, raw_event, window_size)
       IN  /\ incoming_queue' = Tail(incoming_queue)
           /\ consumed' = Append(consumed, raw_event)
           /\ chronology' = outcome.chronology
           /\ outgoing_queue' = outgoing_queue \o outcome.puts
           /\ emitted' = emitted \o outcome.puts
           /\ engine_pc' = IF outcome.raised = "None" THEN "loop" ELSE outcome.raised
    /\ UNCHANGED <<args_window_size, input_file, read_pos, source_pc, window_size,
                   sink_pc, first_line, output_file>>

\* SampleOutputGenerator._get_information_from_incoming_queue returns: the
\* Sink is in its loop and the blocking get finds an item
SinkCanGet == sink_pc = "writing" /\ outgoing_queue # <<>>

\* variant: every piece of information is written with a line break after it
SinkStepBreakAfterLine ==
    /\ SinkCanGet
    /\ LET info == Head(outgoing_queue)
       IN  /\ outgoing_queue' = Tail(outgoing_queue)
           /\ IF info = END_OF_FILE_MARKER
              THEN /\ sink_pc' = "returned"
                   /\ UNCHANGED <<first_line, output_file>>
              ELSE /\ output_file' = output_file \o info \o <<LineBreak>>
                   /\ first_line' = FALSE
                   /\ UNCHANGED sink_pc
    /\ UNCHANGED <<args_window_size, input_file, read_pos, source_pc, incoming_queue,
                   engine_pc, window_size, chronology, consumed, emitted>>

\* SampleOutputGenerator.process_incoming_information, one iteration
SinkStep ==
    /\ SinkCanGet
    /\ LET info == Head(outgoing_queue)
       IN  /\ outgoing_queue' = Tail(outgoing_queue)
           /\ IF info = END_OF_FILE_MARKER
              THEN /\ sink_pc' = "returned"
                   /\ UNCHANGED <<first_line, output_file>>
              ELSE /\ output_file' = output_file \o
                                        (IF first_line THEN info ELSE <<LineBreak>> \o info)
                   /\ first_line' = FALSE
                   /\ UNCHANGED sink_pc
    /\ UNCHANGED <<args_window_size, input_file, read_pos, source_pc, incoming_queue,
                   engine_pc, window_size, chronology, consumed, emitted>>

\* SampleOutputGenerator.process_incoming_information, except: branch
SinkFail ==
    /\ sink_pc = "writing"
    /\ sink_pc' = "failed"
    /\ UNCHANGED <<args_window_size, input_file, read_pos, source_pc, incoming_queue,
                   engine_pc, window_size, chronology, outgoing_queue, first_line,
                   output_file, consumed, emitted>>

\* runs in which no file operation fails
Next == Start \/ SourceReadLine \/ EngineStep \/ SinkStep

Spec == Init /\ [][Next]_vars

\* the runs on an input file of one event
InitSingleEvent == InitWith({FileOf(<<e>>) : e \in InputEvents}, WindowArgs)

SpecSingleEvent == InitSingleEvent /\ [][Next]_vars

\* runs in which reading the input file or writing the output file may fail
NextIO == Next \/ SourceFail \/ SinkFail

SpecIO == Init /\ [][NextIO]_vars

\* the run of test_unbabel: the three events of UNIT_TEST_1_INPUT (on day 0),
\* window size 10; the file operations of the Source and the Sink may fail
UnbabelWindow == 10

UnbabelEvents ==
    << <<18 * MinutesPerHour + 11, <<8, 509654>>, 20>>,
       <<18 * MinutesPerHour + 15, <<19, 903159>>, 31>>,
       <<18 * MinutesPerHour + 23, <<19, 903159>>, 54>> >>

InitUnbabel == InitWith({FileOf(UnbabelEvents)}, {UnbabelWindow})

SpecUnbabel == InitUnbabel /\ [][NextIO]_vars

\* one-event files whose event lies on a minute boundary, a microsecond or a
\* second after it or a microsecond before the next, in a minute at the start,
\* at the end of an hour or at the end of a day
CeilSubMinutes == SubMinutes \cup {<<0, 1>>, <<1, 0>>}

CeilMinutes == InputMinutes \cup {MinutesPerHour - 1, MinutesPerDay - 1}

InitCeil ==
    InitWith({FileOf(<<e>>) : e \in CeilMinutes \X CeilSubMinutes \X Durations},
             WindowArgs)

SpecCeil == InitCeil /\ [][Next]_vars

\* the ordered event sequences made of the events of a given set
OrderedOver(events) ==
    {es \in UNION {[1 .. n -> events] : n \in 0 .. MaxEvents} :
        \A i \in 1 .. Len(es) - 1 : NotLater(es[i], es[i + 1])}

\* the runs on events that differ in their minute only (each on the minute
\* boundary, with duration 1), without and with file failures
TimelineEvents == {e \in InputEvents : e[2] = <<0, 0>> /\ e[3] = 1}

InitTimeline == InitWith({FileOf(es) : es \in OrderedOver(TimelineEvents)}, WindowArgs)

SpecTimeline == InitTimeline /\ [][Next]_vars

SpecTimelineIO == InitTimeline /\ [][NextIO]_vars

\* the runs on files whose events come in any order, ordered or not (events on
\* the minute boundary, with duration 1)
AnyOrderOver(events) == UNION {[1 .. n -> events] : n \in 0 .. MaxEvents}

InitAnyOrder == InitWith({FileOf(es) : es \in AnyOrderOver(TimelineEvents)}, WindowArgs)

SpecAnyOrder == InitAnyOrder /\ [][Next]_vars

\* the runs on events of every duration in three minutes of one day: two
\* consecutive minutes and one after a gap of empty minutes
DurationEvents ==
    {e \in InputEvents : e[1] \in {0, 1, MaxMinute} /\ e[2] = <<0, 0>>}

InitDurations == InitWith({FileOf(es) : es \in OrderedOver(DurationEvents)}, WindowArgs)

SpecDurations == InitDurations /\ [][Next]_vars

\* the runs on events that differ in their instant only (every minute, on the
\* boundary and inside the minute, with duration 1)
InstantEvents == {e \in InputEvents : e[3] = 1}

InitInstants == InitWith({FileOf(es) : es \in OrderedOver(InstantEvents)}, WindowArgs)

SpecInstants == InitInstants /\ [][Next]_vars

\* the same file with a line break after its last line as well
FileEndingInBreak(es) == [i \in 1 .. Len(es) |-> <<EventJson(es[i]), LineBreak>>]

\* the runs on files that end with or without a line break
InitLines ==
    InitWith({FileOf(es) : es \in OrderedOver(TimelineEvents)}
                \cup {FileEndingInBreak(es) : es \in OrderedOver(TimelineEvents)},
             WindowArgs)

SpecLines == InitLines /\ [][Next]_vars

\* ===================================================== properties checked
\* What the properties say about the input and the output, read off the texts
\* of the file and of the queue items.

\* the minute an event of the file belongs to: its own minute if it lies on
\* the boundary, the next one otherwise
MinuteOfLine(line) ==
    LET ts == line[1].timestamp
    IN  ts.day * MinutesPerDay + ts.hour * MinutesPerHour + ts.minute
        + (IF ts.second = 0 /\ ts.microsecond = 0 THEN 0 ELSE 1)

IsResult(item) == item # END_OF_FILE_MARKER

\* an item of the incoming queue that is an event record
IsEvent(item) == item # END_OF_FILE_MARKER

\* the minute a Result is for, and the average it carries
ResultMinute(item) ==
    LET date == item[1].date
    IN  date.day * MinutesPerDay + date.hour * MinutesPerHour + date.minute

ResultAverage(item) == item[1].average_delivery_time

\* the Result for minute m that carries the integer n
IntResult(m, n) ==
    <<[date |-> [day |-> m \div MinutesPerDay,
                 hour |-> (m % MinutesPerDay) \div MinutesPerHour,
                 minute |-> m % MinutesPerHour,
                 second |-> 0],
       average_delivery_time |-> [kind |-> "int", value |-> n]]>>

Results(items) == SelectSeq(items, IsResult)

EngineEnded == engine_pc \in {"returned", "ZeroDivisionError", "IndexError"}

\* the events of the file in the window of W minutes that ends at minute m
InWindow(m, W) ==
    {i \in 1 .. Len(input_file) :
        MinuteOfLine(input_file[i]) \in (m - W + 1) .. m}

RECURSIVE TotalDuration(_)
TotalDuration(lines) ==
    IF lines = {} THEN 0
    ELSE LET i == CHOOSE j \in lines : TRUE
         IN  input_file[i][1].duration + TotalDuration(lines \ {i})

\* the event-weighted mean of that window as the output shows it (0 for a
\* window without events)
WindowMean(m, W) ==
    LET events == InWindow(m, W)
        total == TotalDuration(events)
        count == Cardinality(events)
    IN  IF count = 0 THEN [kind |-> "int", value |-> 0]
        ELSE IF total % count = 0 THEN [kind |-> "int", value |-> total \div count]
        ELSE [kind |-> "float",
              milli |-> (2000 * total + count) \div (2 * count)]

\* C1: every Result emitted for a minute m carries the event-weighted mean of
\* the durations of all events whose minute lies in m - window_size + 1 .. m.
C1_WindowMeanOfEveryResult ==
    \A i \in 1 .. Len(emitted) :
        IsResult(emitted[i]) =>
            ResultAverage(emitted[i]) = WindowMean(ResultMinute(emitted[i]), window_size)

\* C2: for a non-empty input the Engine emits exactly
\* (minute of last event) - (minute of first event - 1) + 1 Results.
C2_OneResultPerMinuteOfCoverage ==
    (engine_pc = "returned" /\ input_file # <<>>) =>
        Len(Results(emitted)) =
            MinuteOfLine(input_file[Len(input_file)])
            - (MinuteOfLine(input_file[1]) - 1) + 1

\* C3: the minutes of the Results put on the outgoing queue increase by exactly
\* one minute from each Result to the next.
C3_MinutesIncreaseByOne ==
    \A i \in 1 .. Len(Results(emitted)) - 1 :
        ResultMinute(Results(emitted)[i + 1]) = ResultMinute(Results(emitted)[i]) + 1

\* C4: a window made only of empty minutes yields average 0; the Engine never
\* ends on a division fault.
C4_NoDivisionFault == engine_pc # "ZeroDivisionError"

\* C5: when the end-of-file marker is the first item the Engine reads, it emits
\* no Result, puts exactly the marker on the outgoing queue and returns.
C5_EmptyInputForwardsMarker ==
    (consumed # <<>> /\ consumed[1] = END_OF_FILE_MARKER) =>
        (engine_pc = "returned" /\ emitted = <<END_OF_FILE_MARKER>>)

\* C6: for a non-empty input, once the Engine has ended it has put exactly one
\* end-of-file marker, as its last item, right after the Result of the final
\* flush for the minute of the last event.
C6_MarkerOnceAfterFinalFlush ==
    (EngineEnded /\ input_file # <<>>) =>
        /\ Len(emitted) >= 2
        /\ emitted[Len(emitted)] = END_OF_FILE_MARKER
        /\ \A i \in 1 .. Len(emitted) - 1 : IsResult(emitted[i])
        /\ ResultMinute(emitted[Len(emitted) - 1]) = MinuteOfLine(input_file[Len(input_file)])

\* some thread can take a step: the main thread has yet to start, the Source is
\* reading, or the get of the Engine or of the Sink finds an item
CanStep == NotStarted \/ SourceCanRead \/ EngineCanGet \/ SinkCanGet

\* C7: for a non-empty ordered input, a window size >= 1 and no file failure,
\* the run terminates: as long as the Source, the Engine and the Sink have not
\* all returned, one of them can take a step.
C7_EveryRunTerminates ==
    (args_window_size >= 1 /\ input_file # <<>>) =>
        \/ source_pc = "returned" /\ engine_pc = "returned" /\ sink_pc = "returned"
        \/ CanStep

\* C8: after a failure of the Source while reading, the Engine and the Sink do
\* not stay blocked on their queues: when no thread can take a step any more,
\* the Engine has left its loop and the Sink has ended.
C8_NoReaderBlockedAfterSourceFailure ==
    (source_pc = "failed" /\ ~CanStep) =>
        (engine_pc # "loop" /\ sink_pc # "writing")

IsPrefix(a, b) == Len(a) <= Len(b) /\ SubSeq(b, 1, Len(a)) = a

\* a Result of day 0, as the string on the queue
ResultAt(hour, minute, number) ==
    <<[date |-> [day |-> 0, hour |-> hour, minute |-> minute, second |-> 0],
       average_delivery_time |-> number]>>

IntNumber(n) == [kind |-> "int", value |-> n]
FloatNumber(milli) == [kind |-> "float", milli |-> milli]

\* expected_output of test_unbabel, followed by the marker
UnbabelExpected ==
    << ResultAt(18, 11, IntNumber(0)),
       ResultAt(18, 12, IntNumber(20)),
       ResultAt(18, 13, IntNumber(20)),
       ResultAt(18, 14, IntNumber(20)),
       ResultAt(18, 15, IntNumber(20)),
       ResultAt(18, 16, FloatNumber(25500)),
       ResultAt(18, 17, FloatNumber(25500)),
       ResultAt(18, 18, FloatNumber(25500)),
       ResultAt(18, 19, FloatNumber(25500)),
       ResultAt(18, 20, FloatNumber(25500)),
       ResultAt(18, 21, FloatNumber(25500)),
       ResultAt(18, 22, IntNumber(31)),
       ResultAt(18, 23, IntNumber(31)),
       ResultAt(18, 24, FloatNumber(42500)),
       END_OF_FILE_MARKER >>

\* C9: with window size 10 and the events 18:11:08.509654 (20),
\* 18:15:19.903159 (31), 18:23:19.903159 (54), the Engine puts, in this order,
\* 18:11->0, 18:12..18:15->20, 18:16..18:21->25.5, 18:22->31, 18:23->31,
\* 18:24->42.5 and then the marker; it puts nothing else and ends by returning.
C9_UnbabelOutput ==
    /\ IsPrefix(emitted, UnbabelExpected)
    /\ Len(consumed) = Len(UnbabelEvents) + 1 =>
            (engine_pc = "returned" /\ emitted = UnbabelExpected)

\* the run of C9 has finished: the Sink has read the marker
C9_Witness ==
    /\ window_size = UnbabelWindow
    /\ engine_pc = "returned"
    /\ sink_pc = "returned"
    /\ Len(Results(emitted)) = 14

\* C10: for an input of a single event of minute m and duration d the Engine
\* emits the Result (m - 1, 0) when it processes the event, then (m, d) and the
\* marker on the final flush, and nothing else.
C10_SingleEventTwoResults ==
    Len(input_file) = 1 =>
        LET m == MinuteOfLine(input_file[1])
            d == input_file[1][1].duration
        IN  /\ Len(consumed) = 0 => emitted = <<>>
            /\ Len(consumed) = 1 => emitted = <<IntResult(m - 1, 0)>>
            /\ Len(consumed) = 2 =>
                    /\ engine_pc = "returned"
                    /\ emitted = <<IntResult(m - 1, 0), IntResult(m, d), END_OF_FILE_MARKER>>

\* a single-event run in which the Engine has made the final flush
C10_Witness ==
    /\ Len(input_file) = 1
    /\ engine_pc = "returned"
    /\ Len(Results(emitted)) = 2

\* the whole minutes strictly between the minutes of two events that the Engine
\* got one after the other: the empty minutes of the gaps processed so far
GapMinutes ==
    UNION {(MinuteOfLine(consumed[k - 1]) + 1) .. (MinuteOfLine(consumed[k]) - 1) :
            k \in {j \in 2 .. Len(consumed) : IsEvent(consumed[j])}}

\* C11: with window_size = 1 every Result emitted for a minute m carries the
\* average of the durations of the events of minute m alone, and every empty
\* minute of a gap that has been processed has its Result, with average 0.
C11_PerMinuteAverageWithWindowOne ==
    window_size = 1 =>
        /\ \A i \in 1 .. Len(emitted) :
                IsResult(emitted[i]) =>
                    ResultAverage(emitted[i]) = WindowMean(ResultMinute(emitted[i]), 1)
        /\ \A e \in GapMinutes :
                \E i \in 1 .. Len(emitted) : emitted[i] = IntResult(e, 0)

\* the items the Source delivers for a file when no read fails: the parsed
\* lines in the order of the file, then the marker
delivered(file) ==
    [i \in 1 .. Len(file) |-> parse_event(file[i])] \o <<END_OF_FILE_MARKER>>

\* the Engine run alone on the first n of these items, one after the other:
\* the chronology it is left with, everything it has put, and how it ended
RECURSIVE run_engine(_, _, _)
run_engine(items, n, window) ==
    IF n = 0 THEN Outcome(<<>>, <<>>, "None")
    ELSE LET before == run_engine(items, n - 1, window)
             outcome == engine_step(before.chronology, items[n], window)
         IN  IF before.raised # "None" THEN before
             ELSE Outcome(outcome.chronology, before.puts \o outcome.puts, outcome.raised)

\* C12: in every interleaving of the Source, the Engine and the Sink, what the
\* Engine has put on the outgoing queue is what the Engine run alone puts for
\* the same file and window size on the items it has got so far, and these are
\* the first items of the file in order; when no thread can step any more it
\* is the whole output of that run.
C12_OutputIsFunctionOfInput ==
    engine_pc \notin {"start", "rejected"} =>
        /\ window_size = args_window_size
        /\ IsPrefix(consumed, delivered(input_file))
        /\ emitted = run_engine(delivered(input_file), Len(consumed), window_size).puts
        /\ ~CanStep =>
                emitted = run_engine(delivered(input_file), Len(input_file) + 1,
                                     window_size).puts

\* the Engine has put the whole output of a run on several events before the
\* Sink has written anything
C12_Witness ==
    /\ Len(input_file) >= 2
    /\ engine_pc = "returned"
    /\ Len(Results(emitted)) >= 3
    /\ output_file = <<>>

RECURSIVE SeqSum(_)
SeqSum(numbers) ==
    IF numbers = <<>> THEN 0 ELSE Head(numbers) + SeqSum(Tail(numbers))

\* the k most recent buckets of a chronology (all of them if it has fewer)
MostRecent(chron, k) ==
    SubSeq(chron, 1, IF k < Len(chron) THEN k ELSE Len(chron))

\* The window behind the j-th item that one step of the Engine puts, seen from
\* the chronology before the step: the first put is made before any bucket is
\* inserted, each later one after one more empty bucket has become the head.
\* Its event count and its total duration:
WindowCount(chron, window, j) ==
    LET buckets == MostRecent(chron, IF j = 1 THEN window ELSE window - (j - 1))
    IN  SeqSum([b \in 1 .. Len(buckets) |-> buckets[b].number_of_events])

WindowTotal(chron, window, j) ==
    LET buckets == MostRecent(chron, IF j = 1 THEN window ELSE window - (j - 1))
    IN  SeqSum([b \in 1 .. Len(buckets) |-> buckets[b].total_delivery_time])

\* the JSON number is the quotient total / count as the output must show it:
\* the integer itself if the division is exact (0 for no events), otherwise a
\* float that is a nearest multiple of 10^-3
ShownAs(number, total, count) ==
    IF count = 0 THEN number = IntNumber(0)
    ELSE IF total % count = 0 THEN number = IntNumber(total \div count)
    ELSE /\ number.kind = "float"
         /\ LET error == number.milli * count
                          - (10 ^ AVERAGE_DELIVERY_TIME_MAX_DIGITS) * total
            IN  2 * error <= count /\ -2 * error <= count

C14_NonPositiveWindowRejected ==
    /\ args_window_size <= 0 =>
            /\ engine_pc \in {"start", "rejected"}
            /\ source_pc = "not_started" /\ sink_pc = "not_started"
            /\ read_pos = 0 /\ consumed = <<>> /\ chronology = <<>>
            /\ incoming_queue = <<>> /\ outgoing_queue = <<>>
            /\ emitted = <<>> /\ output_file = <<>>
    /\ engine_pc \notin {"start", "rejected"} => window_size >= 1

\* start() has run on a window size of 0 and has been rejected
C14_Witness ==
    /\ args_window_size = 0
    /\ engine_pc = "rejected"
    /\ input_file # <<>>

\* a is an earlier instant than b
Earlier(a, b) ==
    \/ a.minutes < b.minutes
    \/ a.minutes = b.minutes /\ a.second < b.second
    \/ a.minutes = b.minutes /\ a.second = b.second /\ a.microsecond < b.microsecond

OnMinuteBoundary(t) == t.second = 0 /\ t.microsecond = 0

\* the timestamp of an event record
TimestampOf(item) == fromisoformat(json_loads(item).timestamp)

\* C15: for the timestamp t of every event the Engine has got, the minute r
\* the event is put in is the least minute boundary not earlier than t: r is a
\* minute boundary, t <= r < t + 1 minute, and r = t when t has zero seconds
\* and zero microseconds; r is the minute of the bucket the event goes to.
C15_CeilToMinute ==
    \A i \in 1 .. Len(consumed) :
        IsEvent(consumed[i]) =>
            LET t == TimestampOf(consumed[i])
                r == get_next_minute_of_datetime(t)
            IN  /\ OnMinuteBoundary(r)
                /\ ~Earlier(r, t)
                /\ Earlier(plus_minutes(r, -1), t)
                /\ OnMinuteBoundary(t) => r = t
                /\ (i = Len(consumed) /\ engine_pc = "loop") => chronology[1].date = r

\* an event one microsecond after a minute boundary, at the end of an hour,
\* has been put in the bucket of the next minute
C15_Witness ==
    /\ Len(consumed) = 1
    /\ TimestampOf(consumed[1]) = DateTime(MinutesPerHour - 1, 0, 1)
    /\ chronology # <<>>
    /\ chronology[1].date = DateTime(MinutesPerHour, 0, 0)

\* the Engine has left its loop through the break on the marker (the final
\* flush has run, to its end or to the fault on an empty chronology)
EngineTookMarker == engine_pc \in {"returned", "IndexError"}

\* the pieces of information written to the output file
Written ==
    LET tokens == SelectSeq(output_file, LAMBDA token : token # LineBreak)
    IN  [i \in 1 .. Len(tokens) |-> <<tokens[i]>>]

\* C16: no event record of the file and no Result is the end-of-file marker.
\* The only marker on the incoming queue is the one the Source puts after the
\* last line, and the Engine leaves its loop by the end-of-file branch only on
\* it; the only marker on the outgoing queue is the one the Engine puts after
\* the Result of the final flush, and the Sink returns only on it, after it
\* has written every Result.
C16_MarkerIsNoPayload ==
    /\ \A i \in 1 .. Len(input_file) : parse_event(input_file[i]) # END_OF_FILE_MARKER
    /\ \A i \in 1 .. Len(incoming_queue) :
            incoming_queue[i] = END_OF_FILE_MARKER =>
                /\ i = Len(incoming_queue)
                /\ source_pc = "returned" /\ read_pos = Len(input_file)
    /\ \A i \in 1 .. Len(consumed) :
            consumed[i] = END_OF_FILE_MARKER <=> i = Len(input_file) + 1
    /\ EngineTookMarker <=> Len(consumed) = Len(input_file) + 1
    /\ \A i \in 1 .. Len(emitted) :
            emitted[i] = END_OF_FILE_MARKER =>
                /\ i = Len(emitted) /\ i >= 2
                /\ engine_pc = "returned"
    /\ sink_pc = "returned" =>
            /\ engine_pc = "returned"
            /\ outgoing_queue = <<>>
            /\ Written = Results(emitted)

\* both loops have ended on their marker, after a file of several events
C16_Witness ==
    /\ Len(input_file) >= 2
    /\ engine_pc = "returned"
    /\ sink_pc = "returned"
    /\ Len(Written) >= 3

\* the Engine has processed every item it has got and has not died on one
EventsProcessed == engine_pc \in {"loop", "returned"}

\* C17: after each event is processed, the chronology entry at index i is
\* exactly one minute later than the entry at index i + 1.
C17_ChronologyHasNoGaps ==
    EventsProcessed =>
        \A i \in 1 .. Len(chronology) - 1 :
            chronology[i].date = plus_minutes(chronology[i + 1].date, 1)

\* One step seen from the chronology before and after it: the buckets of the
\* new chronology that are later than the old head are the ones inserted, the
\* rest are the old entries that were kept.  Those must be the most recent old
\* entries, unchanged (but for the head, which an event of its own minute
\* updates), and an old entry may be missing only if the chronology is full.
OnlyOldestEvicted ==
    LET added == Cardinality({i \in 1 .. Len(chronology') :
                    \/ chronology = <<>>
                    \/ Earlier(chronology[1].date, chronology'[i].date)})
        kept == Len(chronology') - added
    IN  /\ kept <= Len(chronology)
        /\ \A j \in 1 .. kept :
                /\ chronology'[added + j].date = chronology[j].date
                /\ (added > 0 \/ j > 1) => chronology'[added + j] = chronology[j]
        /\ kept < Len(chronology) => Len(chronology') = window_size

\* C18: after each event is processed the chronology has at most window_size
\* entries, and a step that inserts new heads removes entries only from the
\* old end and only as many as do not fit.
C18_ChronologyCappedOldestEvicted ==
    /\ [](EventsProcessed => Len(chronology) <= window_size)
    /\ [][EventsProcessed' => OnlyOldestEvicted]_vars

\* a chronology of window_size 2 is full after its third minute has been opened
C18_Witness ==
    /\ engine_pc = "loop"
    /\ window_size = 2
    /\ Len(chronology) = 2
    /\ Len(Results(emitted)) >= 3

\* C19: from the first event until the end-of-file marker, after each event is
\* processed, every Result emitted so far is for a minute earlier than the
\* head minute (none for the head minute itself), and the last Result emitted
\* is for the minute right before the head minute.
C19_HeadIsTheOpenMinute ==
    (engine_pc = "loop" /\ chronology # <<>>) =>
        LET head_minute == chronology[1].date.minutes
        IN  /\ emitted # <<>>
            /\ \A i \in 1 .. Len(emitted) : ResultMinute(emitted[i]) < head_minute
            /\ ResultMinute(emitted[Len(emitted)]) = head_minute - 1

\* C20: the Result emitted for an empty minute e of a gap carries the mean of
\* the events in the window_size minutes that end at e.
C20_EmptyMinuteSeesItsWindow ==
    \A i \in 1 .. Len(emitted) :
        (IsResult(emitted[i]) /\ ResultMinute(emitted[i]) \in GapMinutes) =>
            ResultAverage(emitted[i]) = WindowMean(ResultMinute(emitted[i]), window_size)

\* the Engine has processed the first event and nothing else
FirstEventProcessed ==
    /\ engine_pc = "loop"
    /\ Len(consumed) = 1
    /\ IsEvent(consumed[1])

\* the bucket of count n and total duration d for minute m
Bucket(m, n, d) ==
    [date |-> [minutes |-> m, second |-> 0, microsecond |-> 0],
     number_of_events |-> n, total_delivery_time |-> d]

\* C21 (as claimed): after the first event is processed the chronology is the
\* real bucket for its minute (count 1, total = its duration) followed by an
\* empty bucket for the minute before.
C21_FirstEventTwoBuckets ==
    FirstEventProcessed =>
        LET m == MinuteOfLine(consumed[1])
            d == json_loads(consumed[1]).duration
        IN  chronology = <<Bucket(m, 1, d), Bucket(m - 1, 0, 0)>>

\* C21 (amended): after the first event is processed the chronology is the
\* real bucket for its minute (count 1, total = its duration) alone; the
\* minute before has its Result, with average 0, and no bucket.
C21_FirstEventOneBucket ==
    FirstEventProcessed =>
        LET m == MinuteOfLine(consumed[1])
            d == json_loads(consumed[1]).duration
        IN  /\ chronology = <<Bucket(m, 1, d)>>
            /\ emitted = <<IntResult(m - 1, 0)>>

\* the first event, one that lies inside a minute, has been processed
C21_Witness ==
    /\ FirstEventProcessed
    /\ ~OnMinuteBoundary(TimestampOf(consumed[1]))
    /\ Len(chronology) = 1

\* the step is the Engine getting an item
EngineGets == Len(consumed') = Len(consumed) + 1

\* the item the Engine gets in the step
ItemGot == consumed'[Len(consumed')]

\* the step is the Engine getting an event whose minute is the head minute
SameMinuteStep ==
    /\ EngineGets
    /\ IsEvent(ItemGot)
    /\ chronology # <<>>
    /\ MinuteOfLine(ItemGot) = chronology[1].date.minutes

\* C22: an event whose minute is the head minute adds 1 to the head's event
\* count and its duration to the head's total and changes nothing else: the
\* head keeps its date, the chronology its length and its other buckets,
\* nothing is put on the outgoing queue, and the Engine stays in its loop.
C22_SameMinuteOnlyUpdatesHead ==
    [][SameMinuteStep =>
        /\ Len(chronology') = Len(chronology)
        /\ chronology'[1] =
                [date |-> chronology[1].date,
                 number_of_events |-> chronology[1].number_of_events + 1,
                 total_delivery_time |->
                    chronology[1].total_delivery_time + json_loads(ItemGot).duration]
        /\ \A i \in 2 .. Len(chronology) : chronology'[i] = chronology[i]
        /\ emitted' = emitted
        /\ outgoing_queue' = outgoing_queue
        /\ engine_pc' = "loop"]_vars

\* a second event has been added to a head that has older buckets behind it
C22_Witness ==
    /\ engine_pc = "loop"
    /\ Len(chronology) >= 2
    /\ chronology[1].number_of_events >= 2
    /\ chronology[1].total_delivery_time > chronology[1].number_of_events

\* the step is the Engine getting an event of the minute after the head minute
ConsecutiveStep ==
    /\ EngineGets
    /\ IsEvent(ItemGot)
    /\ chronology # <<>>
    /\ MinuteOfLine(ItemGot) = chronology[1].date.minutes + 1

\* what the step puts is one Result, for the old head minute, with the average
\* of the window as it was before the step; the new head is the bucket of the
\* event alone
ClosesHeadAndOpensNext ==
    /\ engine_pc' = "loop"
    /\ Len(emitted') = Len(emitted) + 1
    /\ IsResult(emitted'[Len(emitted')])
    /\ ResultMinute(emitted'[Len(emitted')]) = chronology[1].date.minutes
    /\ ShownAs(ResultAverage(emitted'[Len(emitted')]),
               WindowTotal(chronology, window_size, 1),
               WindowCount(chronology, window_size, 1))
    /\ chronology'[1] = Bucket(chronology[1].date.minutes + 1, 1,
                               json_loads(ItemGot).duration)

OldHeadIsSecond == Len(chronology') >= 2 /\ chronology'[2] = chronology[1]

\* C23 (as claimed): in the consecutive-minute case the Engine emits exactly
\* one Result, for the old head minute, computed before the new bucket is
\* inserted; afterwards the head is the new bucket (count 1, total = the
\* duration) and the old head is the entry behind it.
C23_ConsecutiveKeepsOldHead ==
    [][ConsecutiveStep => (ClosesHeadAndOpensNext /\ OldHeadIsSecond)]_vars

\* C23 (amended): the same, but the old head is the entry behind the new head
\* only when window_size >= 2; with window_size = 1 it is evicted in the same
\* step and the new bucket is the whole chronology.
C23_ConsecutiveClosesHead ==
    [][ConsecutiveStep =>
        /\ ClosesHeadAndOpensNext
        /\ window_size >= 2 => OldHeadIsSecond
        /\ window_size = 1 => Len(chronology') = 1]_vars

\* a head with two events has been closed by an event of the next minute, and
\* is now the entry behind the new head
C23_Witness ==
    /\ engine_pc = "loop"
    /\ Len(chronology) >= 2
    /\ chronology[1].number_of_events = 1
    /\ chronology[2].number_of_events = 2
    /\ chronology[2].date = plus_minutes(chronology[1].date, -1)
    /\ ResultMinute(emitted[Len(emitted)]) = chronology[2].date.minutes

\* the number of conditions of the if/elif chain that hold for the minute
\* target_minute of an event when the chronology is chron
CasesMatched(chron, target_minute) ==
    Cardinality(
        {case \in 1 .. 4 :
            \/ case = 1 /\ chron = <<>>
            \/ /\ case = 2 /\ chron # <<>>
               /\ target_minute = chron[1].date
            \/ /\ case = 3 /\ chron # <<>>
               /\ datetime_sub(target_minute, chron[1].date) = timedelta_minutes(1)
            \/ /\ case = 4 /\ chron # <<>>
               /\ timedelta_gt(datetime_sub(target_minute, chron[1].date),
                               timedelta_minutes(1))})

\* C24: for an ordered input, whenever the Engine gets an event, the minute of
\* the event is not earlier than the head minute, exactly one of the four
\* conditions of the if/elif chain holds for it, and the event is processed:
\* the step does not leave the chronology, the output and the Engine as they
\* were.
C24_OrderedEventMatchesOneCase ==
    [][(EngineGets /\ IsEvent(ItemGot)) =>
        LET target_minute == get_next_minute_of_datetime(TimestampOf(ItemGot))
        IN  /\ chronology # <<>> => ~Earlier(target_minute, chronology[1].date)
            /\ CasesMatched(chronology, target_minute) = 1
            /\ ~(/\ chronology' = chronology
                  /\ emitted' = emitted
                  /\ engine_pc' = engine_pc)]_vars

\* an event at the end of a minute and a later one on the boundary that closes
\* that minute have both gone to the same bucket, and an event a day later
\* has been processed after them
C24_Witness ==
    /\ engine_pc = "loop"
    /\ Len(consumed) = 3
    /\ TimestampOf(consumed[1]) = DateTime(0, 59, 999999)
    /\ TimestampOf(consumed[2]) = DateTime(1, 0, 0)
    /\ TimestampOf(consumed[3]) = DateTime(MinutesPerDay, 59, 999999)
    /\ chronology[1] = Bucket(MinutesPerDay + 1, 1, 1)

\* the text of a file whose lines are the given strings: a line break between
\* two consecutive lines, none after the last
RECURSIVE FileText(_)
FileText(lines) ==
    IF lines = <<>> THEN <<>>
    ELSE IF Len(lines) = 1 THEN lines[1]
    ELSE FileText(SubSeq(lines, 1, Len(lines) - 1)) \o <<LineBreak>> \o lines[Len(lines)]

\* the items the Sink has read: what the Engine has put and is no longer on
\* the outgoing queue
ReadBySink == SubSeq(emitted, 1, Len(emitted) - Len(outgoing_queue))

\* C25: the output file is at any time the Results the Sink has read, one per
\* line, in the order in which the Engine put them, with a line break between
\* consecutive lines and none at the end; the marker is never written; when
\* the Sink has returned, the lines are all the Results the Engine emitted.
C25_OneLinePerResultInOrder ==
    /\ output_file = FileText(Results(ReadBySink))
    /\ \A i \in 1 .. Len(output_file) : <<output_file[i]>> # END_OF_FILE_MARKER
    /\ sink_pc = "returned" =>
            /\ engine_pc = "returned"
            /\ Len(Written) = Len(Results(emitted))
            /\ output_file = FileText(Results(emitted))

\* the Sink has returned after writing the Results of a file with a gap
C25_Witness ==
    /\ sink_pc = "returned"
    /\ Len(input_file) >= 2
    /\ Len(Written) >= 4
    /\ output_file[Len(output_file)] # LineBreak

\* a line of the file without its line break
LineText(line) == SelectSeq(line, LAMBDA token : token # LineBreak)

\* every line of the file in file order, without its line break, and then the
\* marker
LinesThenMarker ==
    [i \in 1 .. Len(input_file) + 1 |->
        IF i <= Len(input_file) THEN LineText(input_file[i]) ELSE END_OF_FILE_MARKER]

\* everything the Source has put on the incoming queue, in order
PutBySource == consumed \o incoming_queue

\* C26: what the Source has put is at any time the first lines of the file in
\* file order, each without its line break, one item per line read; once it
\* has returned it has put all lines and then exactly one marker, as the last
\* item.  The Engine gets the items in that order, and after it has got the
\* marker it is no longer in its loop.
C26_LinesInOrderThenMarker ==
    /\ IsPrefix(PutBySource, LinesThenMarker)
    /\ Len(PutBySource) = read_pos + (IF source_pc = "returned" THEN 1 ELSE 0)
    /\ source_pc = "returned" => PutBySource = LinesThenMarker
    /\ IsPrefix(consumed, LinesThenMarker)
    /\ (consumed # <<>> /\ consumed[Len(consumed)] = END_OF_FILE_MARKER) =>
            engine_pc # "loop"

\* the Source has returned after a file of several lines that ends in a line
\* break, and the Engine has got everything and has returned
C26_Witness ==
    /\ Len(input_file) >= 2
    /\ input_file[Len(input_file)][Len(input_file[Len(input_file)])] = LineBreak
    /\ source_pc = "returned"
    /\ engine_pc = "returned"
    /\ incoming_queue = <<>>

\* the events the Engine has got whose minute is m
EventsOfMinute(m) ==
    {i \in 1 .. Len(consumed) : IsEvent(consumed[i]) /\ MinuteOfLine(consumed[i]) = m}

RECURSIVE DurationOf(_)
DurationOf(events) ==
    IF events = {} THEN 0
    ELSE LET i == CHOOSE j \in events : TRUE
         IN  json_loads(consumed[i]).duration + DurationOf(events \ {i})

\* C27: after each event is processed, the entries that the next average (the
\* one for the head minute m) reads are the buckets of the consecutive minutes
\* m, m - 1, ... down to the older of m - window_size + 1 and the minute of the
\* first event, each holding exactly the events of its minute.
C27_WindowReadsConsecutiveMinutes ==
    (EventsProcessed /\ chronology # <<>>) =>
        LET m == chronology[1].date.minutes
            first == MinuteOfLine(consumed[1])
            read == MostRecent(chronology, window_size)
        IN  /\ Len(read) = (IF m - first + 1 < window_size THEN m - first + 1
                             ELSE window_size)
            /\ \A i \in 1 .. Len(read) :
                    read[i] = Bucket(m - i + 1,
                                     Cardinality(EventsOfMinute(m - i + 1)),
                                     DurationOf(EventsOfMinute(m - i + 1)))

\* C28: after each event is processed the head bucket holds at least one
\* event, so the entries read for the head minute hold at least one event
\* too; a step of the Engine that ends in a division by zero is never the final
\* flush and has already put the average of the head minute it closed.
C28_HeadIsRealBucket ==
    [][EngineGets =>
          /\ (engine_pc' = "loop" /\ chronology' # <<>>) =>
                /\ chronology'[1].number_of_events >= 1
                /\ sum_number_of_events(chronology',
                                        entries_read(chronology', window_size)) >= 1
                /\ get_average_delivery_time_from_chronology(chronology', window_size)
                       # ZeroDivisionError
          /\ engine_pc' = "ZeroDivisionError" =>
                /\ IsEvent(ItemGot)
                /\ chronology # <<>>
                /\ Len(emitted') >= Len(emitted) + 1
                /\ emitted'[Len(emitted) + 1] =
                       information(chronology[1].date,
                                   get_average_delivery_time_from_chronology(
                                       chronology, window_size))]_vars

\* a run that closed a head minute, filled an empty minute behind the new head
\* and ended with the final flush
C28_Witness ==
    /\ engine_pc = "returned"
    /\ Len(chronology) >= 2
    /\ chronology[1].number_of_events >= 1
    /\ chronology[2].number_of_events = 0
    /\ Len(emitted) >= 4

\* C29: whenever the Engine gets an event whose minute is earlier than the head
\* minute, none of the four conditions of the if/elif chain holds for it; the
\* step only takes the event off the incoming queue: the chronology, the
\* outgoing queue and everything put so far stay as they were, and the Engine
\* is back in its loop.
C29_EarlierEventIsDropped ==
    [][(EngineGets /\ IsEvent(ItemGot) /\ chronology # <<>>
            /\ Earlier(get_next_minute_of_datetime(TimestampOf(ItemGot)),
                       chronology[1].date)) =>
          /\ CasesMatched(chronology,
                          get_next_minute_of_datetime(TimestampOf(ItemGot))) = 0
          /\ chronology' = chronology
          /\ outgoing_queue' = outgoing_queue
          /\ emitted' = emitted
          /\ incoming_queue' = Tail(incoming_queue)
          /\ engine_pc' = "loop"]_vars

\* the events of 00:01, 00:00 and 00:02 have been got in this order: the second
\* was dropped, the third closed the minute 00:01, and the Engine has returned
C29_Witness ==
    /\ engine_pc = "returned"
    /\ Len(consumed) = 4
    /\ MinuteOfLine(consumed[1]) = 1
    /\ MinuteOfLine(consumed[2]) = 0
    /\ MinuteOfLine(consumed[3]) = 2
    /\ window_size = 2
    /\ chronology = <<Bucket(2, 1, 1), Bucket(1, 1, 1)>>
    /\ Len(emitted) = 4

\* C30: for a file with at least one event, once the Source has put every line
\* and the marker and the Engine has nothing left to get, the Engine has got
\* every item, has put the marker as its last item and has returned, whatever
\* the Sink did: whether it has stopped after an error, has not taken anything
\* yet or has written all.
C30_EngineReturnsWhateverTheSinkDoes ==
    (input_file # <<>> /\ source_pc = "returned" /\ ~EngineCanGet) =>
        /\ engine_pc = "returned"
        /\ Len(consumed) = Len(input_file) + 1
        /\ emitted # <<>>
        /\ emitted[Len(emitted)] = END_OF_FILE_MARKER

====
